---- MODULE Spec2Model ----
(***************************************************************************)
(* Power Logger (src/app.py): a Streamlit script that is re-run from top   *)
(* to bottom on every user interaction.  The only state that survives a    *)
(* run is st.session_state.df and the widgets' values.  One action of the  *)
(* model is one complete run of the script for one interaction.            *)
(*                                                                         *)
(* Text is a sequence of characters, so that formatting, parsing, quoting  *)
(* and encoding are computed.  Of the fixed-width time format only the     *)
(* seconds field is kept.  st.data_editor returns the table it is given    *)
(* with the edit the user made in this interaction, if any.  An exception  *)
(* that the script does not catch ends the run at the line that raised it. *)
(***************************************************************************)
EXTENDS Integers, Sequences, FiniteSets, TLC

\* ---------------------------------------------------------------- bounds
MaxRows == 2
MaxClock == 1

\* ------------------------------------------------------ program constants
min_value == -100000
max_value == 100000
default_power == 50

\* Values of the number input that the user tries.
PowerInputs == {-7, default_power}

\* ------------------------------------------------------------ characters
DigitChars == <<"0", "1", "2", "3", "4", "5", "6", "7", "8", "9">>
Digit(d) == DigitChars[d + 1]
COMMA == ","
DQUOTE == "\""
NEWLINE == "\n"

DigitSet == {DigitChars[i] : i \in 1..Len(DigitChars)}
DigitValue == [c \in DigitSet |-> (CHOOSE i \in 1..Len(DigitChars) : DigitChars[i] = c) - 1]
IsDigit(c) == c \in DigitSet
DigitVal(c) == DigitValue[c]

RECURSIVE NatStr(_)
NatStr(n) == IF n < 10 THEN <<Digit(n)>> ELSE NatStr(n \div 10) \o <<Digit(n % 10)>>

\* str(n) of a Python int
IntStr(n) == IF n < 0 THEN <<"-">> \o NatStr(0 - n) ELSE NatStr(n)

RECURSIVE NatOfDigits(_)
NatOfDigits(s) ==
  IF s = <<>> THEN 0 ELSE 10 * NatOfDigits(SubSeq(s, 1, Len(s) - 1)) + DigitVal(s[Len(s)])

IsDigits(s) == Len(s) > 0 /\ \A i \in 1..Len(s) : IsDigit(s[i])

\* ----------------------------------------------------------------- cells
\* A cell of the DataFrame: a Python int, a str (sequence of characters),
\* a missing value (None/NaN), or - only inside the chart's copy - a parsed
\* Timestamp / NaT.
NA == [k |-> "na", v |-> 0]
IntCell(n) == [k |-> "int", v |-> n]
StrCell(s) == [k |-> "str", v |-> s]
TsCell(t) == [k |-> "ts", v |-> t]
NaT == [k |-> "nat", v |-> 0]

\* datetime.now().strftime(...): the clock is counted in seconds; the format
\* is fixed-width and zero-padded, of which the seconds field is kept.
strftime(t) == <<Digit((t \div 10) % 10), Digit(t % 10)>>

\* Text a user can type into a cell that is neither a number nor a date; it
\* holds the characters that CSV has to quote.
BadText == <<"a", COMMA, DQUOTE>>

\* ------------------------------------------------------------- DataFrame
DateTimeCol == <<"D", "a", "t", "e", " ", "T", "i", "m", "e">>
PowerCol == <<"P", "o", "w", "e", "r">>

\* pd.DataFrame(columns=["Date Time", "Power"])
EmptyDataFrame == [columns |-> <<DateTimeCol, PowerCol>>, rows |-> <<>>]

Row(dt, pw) == [DateTime |-> dt, Power |-> pw]

\* df.empty
empty(d) == Len(d.rows) = 0

Column(rows, name) ==
  [i \in 1..Len(rows) |-> IF name = DateTimeCol THEN rows[i].DateTime ELSE rows[i].Power]

\* ------------------------------------------------------ pandas operations
\* pd.to_datetime of one value: text of digits parses, a missing value
\* becomes NaT, any other text raises.
Parseable(c) == c.k = "na" \/ (c.k = "str" /\ IsDigits(c.v))
to_datetime_cell(c) == IF c.k = "na" THEN NaT ELSE TsCell(NatOfDigits(c.v))

\* pd.to_datetime(series): raises as a whole when one value does not parse.
to_datetime(col) ==
  IF \A i \in 1..Len(col) : Parseable(col[i])
  THEN [ok |-> TRUE, v |-> [i \in 1..Len(col) |-> to_datetime_cell(col[i])]]
  ELSE [ok |-> FALSE, v |-> col]

\* Python int(x): an int, or text that is an integer literal; raises on
\* None/NaN and on any other text.
IsIntLiteral(s) ==
  \/ IsDigits(s)
  \/ Len(s) > 1 /\ s[1] = "-" /\ IsDigits(Tail(s))
int(c) ==
  CASE c.k = "int" -> [ok |-> TRUE, v |-> c.v]
    [] c.k = "str" /\ IsIntLiteral(c.v) ->
         [ok |-> TRUE,
          v |-> IF c.v[1] = "-" THEN 0 - NatOfDigits(Tail(c.v)) ELSE NatOfDigits(c.v)]
    [] OTHER -> [ok |-> FALSE, v |-> 0]

RECURSIVE SumInts(_)
SumInts(col) == IF col = <<>> THEN 0 ELSE Head(col).v + SumInts(Tail(col))

\* round(x, 2) of the quotient num/den, in hundredths (ties to even).
round2(num, den) ==
  LET q == (100 * num) \div den
      r == (100 * num) % den
  IN  IF 2 * r < den THEN q
      ELSE IF 2 * r > den THEN q + 1
      ELSE IF q % 2 = 0 THEN q ELSE q + 1

\* Series.mean(): skips missing values, raises on text, NaN when nothing is
\* left.  The result is given rounded, as the script rounds it at once.
mean(col) ==
  LET nums == SelectSeq(col, LAMBDA c : c.k = "int")
  IN  IF \E i \in 1..Len(col) : col[i].k = "str" THEN [ok |-> FALSE, v |-> NA]
      ELSE IF nums = <<>> THEN [ok |-> TRUE, v |-> [k |-> "nan", v |-> 0]]
      ELSE [ok |-> TRUE,
            v |-> [k |-> "float", v |-> round2(SumInts(nums), Len(nums))]]

\* Series.min() of parsed timestamps (NaT is skipped; NaT when none is left).
RECURSIVE Min(_)
Min(S) == LET x == CHOOSE y \in S : TRUE
          IN  IF S = {x} THEN x ELSE LET m == Min(S \ {x}) IN IF x < m THEN x ELSE m
ts_min(col) ==
  LET S == {col[i].v : i \in {j \in 1..Len(col) : col[j].k = "ts"}}
  IN  IF S = {} THEN NaT ELSE TsCell(Min(S))

\* str(Timestamp)
ts_str(c) == IF c.k = "nat" THEN <<"N", "a", "T">> ELSE strftime(c.v)

\* ---------------------------------------------------------------- metrics
\* What one st.metric shows.  Absent: st.metric was not called.
Absent == [k |-> "absent", v |-> 0]
EmDash == StrCell(<<"--">>)           \* the em dash of the source
InvalidDate == StrCell(<<"Invalid Date">>)

total_rows(d) == IntCell(Len(d.rows))

latest_power(d) ==
  IF ~empty(d)
  THEN LET r == int(d.rows[Len(d.rows)].Power) IN [ok |-> r.ok, v |-> IntCell(r.v)]
  ELSE [ok |-> TRUE, v |-> EmDash]

avg_power(d) ==
  IF ~empty(d) THEN mean(Column(d.rows, PowerCol)) ELSE [ok |-> TRUE, v |-> EmDash]

start_time(d) ==
  IF ~empty(d)
  THEN LET p == to_datetime(Column(d.rows, DateTimeCol))
       IN  IF p.ok THEN StrCell(ts_str(ts_min(p.v))) ELSE InvalidDate
  ELSE Absent

\* The top metrics block.  An exception that is not caught ends the run of
\* the script at that line: the metrics after it are not shown.
TopMetrics(d) ==
  LET lp == latest_power(d)
      ap == avg_power(d)
  IN  IF ~lp.ok
      THEN [raised |-> TRUE, total |-> total_rows(d), latest |-> Absent,
            avg |-> Absent, start |-> Absent]
      ELSE IF ~ap.ok
      THEN [raised |-> TRUE, total |-> total_rows(d), latest |-> lp.v,
            avg |-> Absent, start |-> Absent]
      ELSE [raised |-> FALSE, total |-> total_rows(d), latest |-> lp.v,
            avg |-> ap.v, start |-> start_time(d)]

\* -------------------------------------------------------------- ingestion
\* new_row and pd.concat([df, new_row], ignore_index=True)
new_row(now, p) == Row(StrCell(now), IntCell(p))
concat_front(d, row) == [d EXCEPT !.rows = <<row>> \o @]
concat(d, row) == [d EXCEPT !.rows = Append(@, row)]

\* add_clicked handler: the new table and the success message
add_handler(d, t, p) ==
  LET now == strftime(t)
  IN  [df |-> concat(d, new_row(now, p)),
       message |-> [kind |-> "success", now |-> now, power |-> p]]

\* clear_clicked handler
clear_handler(d) ==
  [df |-> EmptyDataFrame, message |-> [kind |-> "warning", now |-> <<>>, power |-> 0]]

NoMessage == [kind |-> "none", now |-> <<>>, power |-> 0]

\* ----------------------------------------------------------------- editor
\* One edit made in the st.data_editor widget ("dynamic" rows): a cell is
\* changed, a row of empty cells is added at the end, or a row is deleted.
NoEdit == [op |-> "none", i |-> 0, col |-> <<>>, v |-> NA]

SetCell(rows, i, col, v) ==
  [rows EXCEPT ![i] = IF col = DateTimeCol THEN [@ EXCEPT !.DateTime = v]
                                           ELSE [@ EXCEPT !.Power = v]]
DeleteRow(rows, i) == SubSeq(rows, 1, i - 1) \o SubSeq(rows, i + 1, Len(rows))

\* st.data_editor(data, num_rows="dynamic"): the data with the user's edit
data_editor(d, ed) ==
  CASE ed.op = "cell" -> [d EXCEPT !.rows = SetCell(@, ed.i, ed.col, ed.v)]
    [] ed.op = "add_row" -> [d EXCEPT !.rows = Append(@, Row(NA, NA))]
    [] ed.op = "delete_row" -> [d EXCEPT !.rows = DeleteRow(@, ed.i)]
    [] OTHER -> d

write_back_validated(store, edited) ==
  IF \A i \in 1..Len(edited.rows) : edited.rows[i].Power.k = "int" THEN edited ELSE store
\* st.session_state.df = edited_df
write_back(store, edited) == edited

\* ------------------------------------------------------------------ chart
\* Code points of the characters in use (Python orders text by them, and
\* UTF-8 encodes each of these in one byte of the same value).
CodePoints ==
  <<<<NEWLINE, 10>>, <<" ", 32>>, <<DQUOTE, 34>>, <<COMMA, 44>>, <<"-", 45>>,
    <<"0", 48>>, <<"1", 49>>, <<"2", 50>>, <<"3", 51>>, <<"4", 52>>,
    <<"5", 53>>, <<"6", 54>>, <<"7", 55>>, <<"8", 56>>, <<"9", 57>>,
    <<"D", 68>>, <<"P", 80>>, <<"T", 84>>, <<"a", 97>>, <<"e", 101>>,
    <<"i", 105>>, <<"m", 109>>, <<"o", 111>>, <<"r", 114>>, <<"t", 116>>,
    <<"w", 119>>>>
OrdTable ==
  [c \in {CodePoints[i][1] : i \in 1..Len(CodePoints)} |->
     CodePoints[CHOOSE i \in 1..Len(CodePoints) : CodePoints[i][1] = c][2]]
ord(c) == OrdTable[c]

RECURSIVE StrLess(_, _)
StrLess(a, b) ==
  IF b = <<>> THEN FALSE
  ELSE IF a = <<>> THEN TRUE
  ELSE IF ord(Head(a)) /= ord(Head(b)) THEN ord(Head(a)) < ord(Head(b))
  ELSE StrLess(Tail(a), Tail(b))

isna(c) == c.k \in {"na", "nat"}

\* a < b on two values of a column
KeyLess(a, b) == IF a.k = "ts" THEN a.v < b.v ELSE StrLess(a.v, b.v)

\* Values of one column can be ordered when they are of one type.
Comparable(col) ==
  \A i, j \in 1..Len(col) : (~isna(col[i]) /\ ~isna(col[j])) => col[i].k = col[j].k

Identity(n) == [i \in 1..n |-> i]
Orders(n) == {p \in [1..n -> 1..n] : \A i, j \in 1..n : p[i] = p[j] => i = j}

sort_orders_unsorted(col) == {Identity(Len(col))}
\* DataFrame.sort_values(by): kind="quicksort" is the default, which does
\* not promise the order of equal keys; missing keys are put last, in their
\* original order.  Every order the call may return.
sort_orders(col) ==
  {p \in Orders(Len(col)) :
     \A i, j \in 1..Len(col) : i < j =>
        /\ ~(isna(col[p[i]]) /\ ~isna(col[p[j]]))
        /\ (~isna(col[p[i]]) /\ ~isna(col[p[j]])) => ~KeyLess(col[p[j]], col[p[i]])
        /\ (isna(col[p[i]]) /\ isna(col[p[j]])) => p[i] < p[j]}

\* A DataFrame as the chart holds it: the rows, their index labels, and
\* whether the object shares its data with st.session_state.df.
Frame(index, rows, shared) == [index |-> index, rows |-> rows, shared |-> shared]

\* the new DataFrame that sort_values returns for one of its orders
take(f, p) ==
  Frame([i \in 1..Len(p) |-> f.index[p[i]]], [i \in 1..Len(p) |-> f.rows[p[i]]], FALSE)

copy_alias(d) == Frame(Identity(Len(d.rows)), d.rows, TRUE)
\* df_plot = st.session_state.df.copy()
copy(d) == Frame(Identity(Len(d.rows)), d.rows, FALSE)

\* df_plot["Date Time"] = pd.to_datetime(df_plot["Date Time"]) in try/except:
\* the column is replaced in place, or the warning is shown
parse_dates(f) ==
  LET p == to_datetime(Column(f.rows, DateTimeCol))
  IN  IF p.ok
      THEN [warning |-> FALSE,
            frame |-> [f EXCEPT !.rows = [i \in 1..Len(f.rows) |->
                                            [f.rows[i] EXCEPT !.DateTime = p.v[i]]]]]
      ELSE [warning |-> TRUE, frame |-> f]

\* the orders "if sort_by_time: try: sort_values except: pass" may leave
plot_orders(f, sort) ==
  IF sort /\ Comparable(Column(f.rows, DateTimeCol))
  THEN sort_orders(Column(f.rows, DateTimeCol))
  ELSE {Identity(Len(f.rows))}

\* plotly express may refuse a y column that holds text
px_outcomes(f) ==
  IF \E i \in 1..Len(f.rows) : f.rows[i].Power.k = "str" THEN {TRUE, FALSE} ELSE {FALSE}

NotRendered ==
  [state |-> "none", warning |-> FALSE, type |-> "", markers |-> FALSE,
   df_plot |-> Frame(<<>>, <<>>, FALSE)]

\* Tab 2, given the order sort_values returned and whether plotly raised:
\* what the tab shows, and st.session_state.df as the tab leaves it.
chart_tab(d, type, markers, sort, order, px_raises) ==
  LET df_plot == copy(d)
  IN  IF df_plot.rows = <<>>
      THEN [view |-> [NotRendered EXCEPT !.state = "info"], store |-> d]
      ELSE LET parsed == parse_dates(df_plot)
               sorted == IF sort /\ Comparable(Column(parsed.frame.rows, DateTimeCol))
                         THEN take(parsed.frame, order) ELSE parsed.frame
           IN  [view |-> [state |-> IF px_raises THEN "error" ELSE "fig",
                          warning |-> parsed.warning,
                          type |-> type,
                          markers |-> (type = "Line" /\ markers),
                          df_plot |-> sorted],
                store |-> IF parsed.frame.shared
                          THEN [d EXCEPT !.rows = parsed.frame.rows] ELSE d]

\* ----------------------------------------------------------------- export
\* str(value) as to_csv writes it (a missing value is written as nothing)
cell_text(c) ==
  CASE c.k = "int" -> IntStr(c.v)
    [] c.k = "str" -> c.v
    [] OTHER -> <<>>

\* csv.QUOTE_MINIMAL: a field holding the delimiter, the quote character or
\* a line break is quoted, and its quote characters are doubled.
needs_quotes(s) == \E i \in 1..Len(s) : s[i] \in {COMMA, DQUOTE, NEWLINE}
RECURSIVE double_quotes(_)
double_quotes(s) ==
  IF s = <<>> THEN <<>>
  ELSE (IF Head(s) = DQUOTE THEN <<DQUOTE, DQUOTE>> ELSE <<Head(s)>>)
         \o double_quotes(Tail(s))
csv_field_unquoted(s) == s
csv_field(s) ==
  IF needs_quotes(s) THEN <<DQUOTE>> \o double_quotes(s) \o <<DQUOTE>> ELSE s

RECURSIVE csv_line(_)
csv_line(fields) ==
  IF Len(fields) = 1 THEN csv_field(Head(fields)) \o <<NEWLINE>>
  ELSE csv_field(Head(fields)) \o <<COMMA>> \o csv_line(Tail(fields))

RECURSIVE csv_rows(_, _, _)
csv_rows(rows, i, index) ==
  IF i > Len(rows) THEN <<>>
  ELSE csv_line((IF index THEN <<NatStr(i - 1)>> ELSE <<>>)
                  \o <<cell_text(rows[i].DateTime), cell_text(rows[i].Power)>>)
         \o csv_rows(rows, i + 1, index)

\* DataFrame.to_csv(index=...)
to_csv(d, index) ==
  csv_line((IF index THEN <<<<>>>> ELSE <<>>) \o d.columns) \o csv_rows(d.rows, 1, index)

\* str.encode("utf-8")
encode(s) == [i \in 1..Len(s) |-> ord(s[i])]

NoExport == [state |-> "none", data |-> <<>>, file_name |-> ""]

export_tab_unguarded(d, name) ==
  [state |-> "download", data |-> encode(to_csv(d, FALSE)), file_name |-> name]
\* Tab 3
export_tab(d, name) ==
  IF empty(d) THEN [NoExport EXCEPT !.state = "info"]
  ELSE [state |-> "download", data |-> encode(to_csv(d, FALSE)), file_name |-> name]

\* ------------------------------------------------------------------ state
VARIABLES
  df,            \* st.session_state.df
  clock,         \* the computer's clock, in seconds, when it was last read
  chart_type,    \* the chart-type selectbox
  show_markers,  \* the "Show markers" checkbox
  sort_by_time,  \* the "Sort by Date Time" checkbox
  file_name,     \* the file-name text input
  event,         \* what started the last run of the script
  message,       \* st.success / st.warning of the last run
  metrics,       \* the four st.metric of the last run
  edited_df,     \* what st.data_editor returned in the last run
  chart,         \* tab 2 as the last run rendered it
  export         \* tab 3 as the last run rendered it

vars == <<df, clock, chart_type, show_markers, sort_by_time, file_name,
          event, message, metrics, edited_df, chart, export>>

widgets == <<chart_type, show_markers, sort_by_time, file_name>>

ChartTypes == {"Line", "Scatter", "Bar"}
FileNames == {"power_data.csv", "out.csv"}

\* what the user types into a cell of either column
DateTimeEdits == {StrCell(strftime(0)), StrCell(BadText), NA}
PowerEdits == {IntCell(default_power), StrCell(BadText), NA}

NoMetrics ==
  [raised |-> FALSE, total |-> Absent, latest |-> Absent, avg |-> Absent, start |-> Absent]

\* A new session: the script has not run yet.
Init ==
  /\ df = EmptyDataFrame
  /\ clock = 0
  /\ chart_type = "Line"
  /\ show_markers = TRUE
  /\ sort_by_time = TRUE
  /\ file_name = "power_data.csv"
  /\ event = "init"
  /\ message = NoMessage
  /\ metrics = NoMetrics
  /\ edited_df = EmptyDataFrame
  /\ chart = NotRendered
  /\ export = NoExport

\* The last run reached the end of the script, so its widgets are on the page.
Rendered == event /= "init" /\ ~metrics.raised

\* One run of the script from top to bottom.  ev names the interaction that
\* started it, now is the clock's reading, pv the value of the number input
\* and ed the edit made in the table widget.
Script(ev, now, pv, ed) ==
  LET top == TopMetrics(df)
  IN  /\ event' = ev
      /\ clock' = now
      /\ metrics' = top
      /\ UNCHANGED widgets
      /\ IF top.raised
         THEN /\ UNCHANGED df
              /\ message' = NoMessage
              /\ edited_df' = EmptyDataFrame
              /\ chart' = NotRendered
              /\ export' = NoExport
         ELSE LET added == IF ev = "add" THEN add_handler(df, now, pv)
                           ELSE [df |-> df, message |-> NoMessage]
                  cleared == IF ev = "clear" THEN clear_handler(added.df) ELSE added
                  edited == data_editor(cleared.df, ed)
                  stored == write_back(cleared.df, edited)
                  plotted == parse_dates(copy(stored)).frame
              IN  /\ message' = cleared.message
                  /\ edited_df' = edited
                  /\ \E order \in plot_orders(plotted, sort_by_time),
                        px_raises \in px_outcomes(plotted) :
                       LET tab2 == chart_tab(stored, chart_type, show_markers,
                                             sort_by_time, order, px_raises)
                       IN  /\ chart' = tab2.view
                           /\ df' = tab2.store
                           /\ export' = export_tab(tab2.store, file_name)

\* ---------------------------------------------------------------- actions
\* the page is loaded, or the script is run again without any input
Load ==
  /\ Script("rerun", clock, default_power, NoEdit)

\* "Add to table" is clicked, with a value in the number input
AddClicked ==
  /\ Rendered
  /\ Len(df.rows) < MaxRows
  /\ \E p \in PowerInputs, now \in clock..MaxClock :
       /\ min_value <= p /\ p <= max_value
       /\ Script("add", now, p, NoEdit)

\* "Clear all data" is clicked
ClearClicked ==
  /\ Rendered
  /\ Script("clear", clock, default_power, NoEdit)

\* a cell of the table widget is changed
EditCell ==
  /\ Rendered
  /\ \E i \in 1..Len(df.rows) :
       \/ \E v \in DateTimeEdits \ {df.rows[i].DateTime} :
            Script("edit", clock, default_power,
                   [op |-> "cell", i |-> i, col |-> DateTimeCol, v |-> v])
       \/ \E v \in PowerEdits \ {df.rows[i].Power} :
            Script("edit", clock, default_power,
                   [op |-> "cell", i |-> i, col |-> PowerCol, v |-> v])

\* a row is added in the table widget
EditAddRow ==
  /\ Rendered
  /\ Len(df.rows) < MaxRows
  /\ Script("edit", clock, default_power, [NoEdit EXCEPT !.op = "add_row"])

\* a row is deleted in the table widget
EditDeleteRow ==
  /\ Rendered
  /\ \E i \in 1..Len(df.rows) :
       Script("edit", clock, default_power, [NoEdit EXCEPT !.op = "delete_row", !.i = i])

Next ==
  \/ Load
  \/ AddClicked
  \/ ClearClicked
  \/ EditCell
  \/ EditAddRow
  \/ EditDeleteRow

\* A session in which the chart options and the file name keep their defaults.
Spec == Init /\ [][Next]_vars

\* ------------------------------------------------- the views on any table
\* every table of at most MaxRows rows that adding and editing produce
DateTimeValues == {StrCell(strftime(t)) : t \in 0..MaxClock} \cup DateTimeEdits
PowerValues == {IntCell(p) : p \in PowerInputs} \cup PowerEdits
Rows == {Row(dt, pw) : dt \in DateTimeValues, pw \in PowerValues}
Tables == UNION {[1..n -> Rows] : n \in 0..MaxRows}

\* The session holds some table, the user has set the chart options and the
\* file name (widgets exist only while the table has rows), and the script
\* has not yet run on them.
InitViews ==
  /\ df \in {[EmptyDataFrame EXCEPT !.rows = r] : r \in Tables}
  /\ clock = MaxClock
  /\ chart_type \in ChartTypes
  /\ show_markers \in BOOLEAN
  /\ sort_by_time \in BOOLEAN
  /\ file_name \in FileNames
  /\ empty(df) => /\ chart_type = "Line" /\ show_markers /\ sort_by_time
                  /\ file_name = "power_data.csv"
  /\ event = "init"
  /\ message = NoMessage
  /\ metrics = NoMetrics
  /\ edited_df = EmptyDataFrame
  /\ chart = NotRendered
  /\ export = NoExport

NextViews ==
  \/ Load

SpecViews == InitViews /\ [][NextViews]_vars

\* ----------------------------------------------------------------- claims
\* Reading a CSV text back: the records, each the text of its fields
\* (a quoted field may hold commas, line breaks and doubled quotes).
ChrTable ==
  [b \in {CodePoints[i][2] : i \in 1..Len(CodePoints)} |->
     CodePoints[CHOOSE i \in 1..Len(CodePoints) : CodePoints[i][2] = b][1]]
decode(bytes) == [i \in 1..Len(bytes) |-> ChrTable[bytes[i]]]

RECURSIVE csv_read(_, _, _, _, _, _)
csv_read(s, i, quoted, field, record, records) ==
  IF i > Len(s) THEN records
  ELSE IF quoted
  THEN IF s[i] = DQUOTE
       THEN IF i < Len(s) /\ s[i + 1] = DQUOTE
            THEN csv_read(s, i + 2, TRUE, Append(field, DQUOTE), record, records)
            ELSE csv_read(s, i + 1, FALSE, field, record, records)
       ELSE csv_read(s, i + 1, TRUE, Append(field, s[i]), record, records)
  ELSE IF s[i] = DQUOTE THEN csv_read(s, i + 1, TRUE, field, record, records)
  ELSE IF s[i] = COMMA THEN csv_read(s, i + 1, FALSE, <<>>, Append(record, field), records)
  ELSE IF s[i] = NEWLINE
  THEN csv_read(s, i + 1, FALSE, <<>>, <<>>, Append(records, Append(record, field)))
  ELSE csv_read(s, i + 1, FALSE, Append(field, s[i]), record, records)

ParsedCsv == csv_read(decode(export.data), 1, FALSE, <<>>, <<>>, <<>>)

\* the text of a cell's value: the digits of a number, the text itself,
\* nothing for a missing value
ValueText(c) == IF c.k = "int" THEN IntStr(c.v) ELSE IF c.k = "str" THEN c.v ELSE <<>>

SortedChart ==
  /\ chart.state \in {"fig", "error"}
  /\ sort_by_time
  /\ \A i \in 1..Len(chart.df_plot.rows) : chart.df_plot.rows[i].DateTime.k = "ts"

\* C1: when the add handler runs on a table T with the number input at p,
\* the table stored afterwards has len(T)+1 rows, its first len(T) rows are
\* T's rows in T's order, and its last row is {now, p}.
C1_AddAppends ==
  [][(event' = "add" /\ message'.kind = "success") =>
       /\ Len(df'.rows) = Len(df.rows) + 1
       /\ SubSeq(df'.rows, 1, Len(df.rows)) = df.rows
       /\ df'.rows[Len(df'.rows)] = Row(StrCell(strftime(clock')), IntCell(message'.power))
       /\ df'.columns = df.columns
       /\ message'.now = strftime(clock')
       /\ message'.power \in min_value..max_value]_vars

C1_Witness ==
  /\ event = "add" /\ message.kind = "success"
  /\ Len(df.rows) > 1
  /\ df.rows[1] /= df.rows[Len(df.rows)]

\* C2: a click on "Clear all data" always leaves the Table Store with zero
\* rows and the two columns, whatever the table held before.
C2_ClearAlwaysEmpties == event = "clear" => (df = EmptyDataFrame /\ message.kind = "warning")

\* C3: the metrics a run shows are those of the table as the run leaves
\* it: the row count is the table's, and the run that adds p to the empty
\* table shows Total rows 1, Latest Power p and Average Power p.
C3_MetricsAfterMutation ==
  Rendered =>
    /\ metrics.total = IntCell(Len(df.rows))
    /\ event = "add" => metrics.latest = IntCell(message.power)
    /\ (event = "add" /\ Len(df.rows) = 1) =>
          metrics.avg = [k |-> "float", v |-> 100 * message.power]

\* C4: every run of the script gets as far as ingestion, the editor, the
\* chart and the export, also when the metrics fail on the table's cells.
C4_FailuresIsolated ==
  event /= "init" =>
    /\ chart.state /= "none"
    /\ export.state /= "none"
    /\ event = "add" => message.kind = "success"
    /\ event = "clear" => message.kind = "warning"

\* C5: a run that starts on the empty table shows Total rows 0 and the
\* "no data" sentinel for Latest Power, Average Power and Start time.
C5_EmptyTableMetrics ==
  [][empty(df) =>
       /\ metrics'.total = IntCell(0)
       /\ metrics'.latest = EmDash
       /\ metrics'.avg = EmDash
       /\ metrics'.start = EmDash]_vars

C7_ExportGuard ==
  /\ export.state = "download" <=> (Rendered /\ ~empty(df))
  /\ export.state = "info" <=> (Rendered /\ empty(df))
  /\ export.state /= "download" => export.data = <<>>
  /\ export.state = "download" => export.data /= <<>>

C7_Witness ==
  /\ export.state = "download"
  /\ event = "add"
  /\ metrics.total = IntCell(0)

\* C8: the CSV offered for download reads back as the header record
\* "Date Time", "Power" followed by one record of two fields per row of the
\* Table Store, in the store's order and with the cells' values, whatever
\* the sort option and the file name are.
C8_CsvRoundTrip ==
  export.state = "download" =>
    ParsedCsv = <<<<DateTimeCol, PowerCol>>>> \o
                  [i \in 1..Len(df.rows) |->
                     <<ValueText(df.rows[i].DateTime), ValueText(df.rows[i].Power)>>]

C8_Witness ==
  /\ export.state = "download"
  /\ export.file_name = "out.csv"
  /\ Len(df.rows) > 1
  /\ chart.df_plot.index /= Identity(Len(df.rows))
  /\ df.rows[1].DateTime = StrCell(BadText)
  /\ df.rows[1].Power = NA
  /\ df.rows[Len(df.rows)].Power.k = "int"
  /\ df.rows[Len(df.rows)].Power.v < 0

\* C9: a run that only renders (no add, no clear, no edit) leaves the Table
\* Store as it was, under every chart option and also when a view fails.
C9_ViewsReadOnly == [][event' = "rerun" => df' = df]_vars

C9_Witness ==
  /\ event = "rerun"
  /\ chart.state = "fig"
  /\ ~chart.warning
  /\ chart.type = "Bar"
  /\ chart.df_plot.index /= Identity(Len(df.rows))

\* C10: a run that reaches the editor stores exactly the table the editor
\* returned, unvalidated; when the editor returns the table it returned in
\* the run before, the Table Store stays as that run left it.
C10_EditorReplaces ==
  [][Rendered' =>
       /\ df' = edited_df'
       /\ (Rendered /\ edited_df' = edited_df) => df' = df]_vars

C10_Witness ==
  /\ event = "edit"
  /\ Rendered
  /\ Len(df.rows) > 0
  /\ df.rows[Len(df.rows)].Power = StrCell(BadText)

====
